---------------------------- MODULE Spec2Model ----------------------------
(***************************************************************************)
(* Model of the ArduinoPingMonitor sketch in its two revisions:            *)
(*   "v1"  src/unnamed/part_000      integer averages, in-sketch bit array *)
(*   "v2"  src/DhcpPingMonitor.ino   float averages, BoolBits, LCD alarm   *)
(* One pass of loop() is a cycle: three probes, one sample each, cursor    *)
(* advance, averages, report, Ethernet.maintain(), idle-wait.              *)
(*                                                                         *)
(* Time is the millisecond counter millis().  It advances only where the   *)
(* sketch blocks or spins: inside a probe, inside alarm() and in the       *)
(* idle-wait.  A spin loop reads every value of the counter, so it leaves  *)
(* at the first value that fails its test; the spin is one step to there.  *)
(***************************************************************************)
EXTENDS Integers, Sequences, FiniteSets, TLC

\* ---------------------------------------------------------------- bounds
\* PING_MAX_COUNT is 100 (v1) and 300 (v2) in the sketches; the model runs
\* the same code with a small window.
PING_MAX_COUNT == 4
\* loop() passes the model follows.
MaxCycles == 5
\* probes that may end other than SUCCESS, over the whole run.
MaxLosses == 2
\* The lease is fresh at first: Ethernet.maintain() returns 0 in the first
\* QuietCycles cycles, and any status after them.
QuietCycles == 3
\* Ethernet.maintain() returns a byte; 0..4 are documented, above is unknown.
MaxStatus == 5

\* cycles of a build whose window size is not positive
MaxStrayCycles == 2

\* ------------------------------------------------------ program constants
ICMP_PING_TIMEOUT == 950
PROCESSING_LOOP_TIME == 150
ICMP_PING_TIMEOUT_V1 == 800
PROCESSING_LOOP_TIME_V1 == 600
NUMBER_OF_IPS == 3
ALARM_FAIL_MS == 10000
ALARM_OK_MS == 1000
ALARM_FLASH_MS == 50
SERIAL_BOOT_DELAY == 1000
LCD_BOOT_DELAY_V1 == 1000
LCD_DELAY == 2000
INFO_SCREENS == 4

Revisions == {"v1", "v2"}

\* faulty variant: the gateway probed second
TargetOrderSwapped == <<"firstAddr", "gateway", "secondAddr">>

\* the order of the three setBool(... doPing(...)) statements of loop()
TargetOrder == <<"gateway", "firstAddr", "secondAddr">>

Targets == {TargetOrder[i] : i \in 1..NUMBER_OF_IPS}

PingTimeout(rev) == IF rev = "v1" THEN ICMP_PING_TIMEOUT_V1 ELSE ICMP_PING_TIMEOUT

ProcessingTime(rev) == IF rev = "v1" THEN PROCESSING_LOOP_TIME_V1 ELSE PROCESSING_LOOP_TIME

PROCESSING_LOOP_INTERVAL(rev) == (PingTimeout(rev) * NUMBER_OF_IPS) + ProcessingTime(rev)

\* ---------------------------------------------------- machine arithmetic
\* An unsigned long (millis(), and stime/etime, which hold its bit pattern in
\* a long) is two 16-bit limbs, so that the 32-bit wrap is exact.
LIMB == 65536

U32(h, l) == [hi |-> h, lo |-> l]

\* unsigned long + int (0 <= d < LIMB), modulo 2^32
UAdd(a, d) ==
  LET lo == a.lo + d
  IN U32((a.hi + (lo \div LIMB)) % LIMB, lo % LIMB)

\* faulty variant: the difference of the two numbers, 0 when it is negative
USubClipped(a, b) ==
  IF a.hi < b.hi \/ (a.hi = b.hi /\ a.lo < b.lo)
    THEN U32(0, 0)
    ELSE U32(a.hi - b.hi - (IF a.lo < b.lo THEN 1 ELSE 0), (a.lo - b.lo) % LIMB)

\* unsigned long - unsigned long, modulo 2^32
USub(a, b) ==
  LET lo == a.lo - b.lo
      borrow == IF lo < 0 THEN 1 ELSE 0
  IN U32((a.hi - b.hi - borrow) % LIMB, lo % LIMB)

\* unsigned long < int, the int (0 <= n < LIMB) converted to unsigned long
ULess(a, n) == a.hi = 0 /\ a.lo < n

\* a 16-bit int of the AVR build
Int16(x) == ((x + 32768) % 65536) - 32768

\* C integer division truncates toward zero
TruncDiv(a, b) == IF a >= 0 THEN a \div b ELSE -((-a) \div b)

RECURSIVE BitAnd(_, _)
BitAnd(a, b) ==
  IF a = 0 \/ b = 0 THEN 0
  ELSE (a % 2) * (b % 2) + 2 * BitAnd(a \div 2, b \div 2)

RECURSIVE BitOr(_, _)
BitOr(a, b) ==
  IF a = 0 THEN b
  ELSE IF b = 0 THEN a
  ELSE (IF (a % 2) + (b % 2) > 0 THEN 1 ELSE 0) + 2 * BitOr(a \div 2, b \div 2)

\* ~m of a byte mask, as it acts on a byte operand
BitNot8(m) == 255 - m

\* ----------------------------------------------------------------- state
VARIABLES
  revision,        \* which sketch is built
  asyncEnabled,    \* ICMPPING_ASYNCH_ENABLE of the ICMPPing build
  capacity,        \* PING_MAX_COUNT of the build
  pc,              \* where loop() stands
  tgt,             \* index in TargetOrder of the statement pc is at
  millis,          \* millis()
  stime,           \* long stime
  ethernetStatus,  \* byte ethernetStatus
  pings,           \* gatewayPings, firstAddrPings, secondAddrPings
  currentPingNum,  \* int currentPingNum
  firstRun,        \* boolean firstRun
  avgLoss,         \* gatewayAvgLoss, firstAddrLoss, secondAddrLoss
  pingTimeout,     \* the transport's timeout (ICMPPing::setTimeout), 0 unset
  dispatched,      \* the transport has a probe in flight
  waited,          \* how long the probe in flight has been waited for
  echoStatus,      \* echoReply.status of the cycle's last doPing call
  \* history, read by the properties only
  window,          \* per target, its most recent samples, oldest first
  written,         \* per target, the number of samples written
  lastWritePos,    \* per target, the position of its last write
  avgEnd,          \* per target, the end of the range its last average read
  outcome,         \* per target, what its probe came to, until the cursor moves
  events,          \* what this cycle has done so far, in order
  cycle,           \* cycles started
  advances,        \* calls of currentPingNumInc()
  sinceStart,      \* true milliseconds since the cycle started
  cycleLen,        \* true length of the previous cycle, -1 before it ends
  reported,        \* the percentages last handed to serial and LCD
  maintMessage,    \* what the last maintenance call displayed
  timeoutSets,     \* calls of ICMPPing::setTimeout
  losses,          \* probes that did not succeed, so far
  stray            \* an access has fallen outside its array

cfgVars == <<revision, asyncEnabled, capacity, pingTimeout, timeoutSets>>

clockVars == <<millis, sinceStart>>

bufVars == <<pings, window, written, lastWritePos, stray>>

avgVars == <<avgLoss, avgEnd>>

cursorVars == <<currentPingNum, firstRun, advances>>

probeVars == <<dispatched, waited, echoStatus>>

maintVars == <<ethernetStatus, maintMessage>>

vars == <<revision, asyncEnabled, capacity, stray, pc, tgt, millis, stime, ethernetStatus, pings,
          currentPingNum, firstRun, avgLoss, pingTimeout, dispatched, waited,
          echoStatus, window, written, lastWritePos, avgEnd, outcome, events, cycle,
          advances, sinceStart, cycleLen, reported, maintMessage, timeoutSets,
          losses>>

\* ------------------------------------------------------- bit-packed store
\* faulty variant: the last mask repeats the one before it
BIT_MASK_Repeated == <<1, 2, 4, 8, 16, 32, 64, 64>>

BIT_MASK == <<1, 2, 4, 8, 16, 32, 64, 128>>

\* (int)((n/8.0)+0.5)
ByteMax(n) == TruncDiv(n + 4, 8)

PING_BYTE_MAX == ByteMax(capacity)

ZeroBytes == [b \in 0..(PING_BYTE_MAX - 1) |-> 0]

setBool(data, pos, value) ==
  LET byte_pos == pos \div 8
      bit_pos == pos % 8
  IN IF value
       THEN [data EXCEPT ![byte_pos] = BitOr(data[byte_pos], BIT_MASK[bit_pos + 1])]
       ELSE [data EXCEPT ![byte_pos] = BitAnd(data[byte_pos], BitNot8(BIT_MASK[bit_pos + 1]))]

\* faulty variant: the bit after the one asked for
getBoolNextBit(data, pos) ==
  LET byte_pos == pos \div 8
      bit_pos == (pos + 1) % 8
  IN BitAnd(data[byte_pos], BIT_MASK[bit_pos + 1]) # 0

getBool(data, pos) ==
  LET byte_pos == pos \div 8
      bit_pos == pos % 8
  IN BitAnd(data[byte_pos], BIT_MASK[bit_pos + 1]) # 0

RECURSIVE CountBits(_, _, _)
\* the loop of getAvgBool: sum over x in [startPos, endPos)
CountBits(data, startPos, endPos) ==
  IF startPos >= endPos THEN 0
  ELSE (IF getBool(data, startPos) THEN 1 ELSE 0) + CountBits(data, startPos + 1, endPos)

\* A loss percentage is kept as a fraction num/den: the int of v1 has den 1,
\* the float of v2 is the quotient itself (rounding of the float is not
\* modelled).  den 0 marks the result of a division by zero.
Fraction(n, d) == [num |-> n, den |-> d]

\* faulty variant: the sum scaled by 1000
getAvgBoolRangePerMille(data, startPos, endPos) ==
  LET sum == CountBits(data, startPos, endPos)
  IN IF endPos - startPos = 0
       THEN Fraction(0, 0)
       ELSE Fraction(TruncDiv(Int16(sum * 1000), endPos - startPos), 1)

\* faulty variant: the sum scaled by 1000, the quotient scaled back by 10
getAvgBoolRangeWide(data, startPos, endPos) ==
  LET sum == CountBits(data, startPos, endPos)
  IN IF endPos - startPos = 0
       THEN Fraction(0, 0)
       ELSE Fraction(TruncDiv(TruncDiv(Int16(sum * 1000), endPos - startPos), 10), 1)

\* v1: int getAvgBool(byte data[], int startPos, int endPos)
getAvgBoolRange(data, startPos, endPos) ==
  LET sum == CountBits(data, startPos, endPos)
  IN IF endPos - startPos = 0
       THEN Fraction(0, 0)
       ELSE Fraction(TruncDiv(Int16(sum * 100), endPos - startPos), 1)

\* v2: float BoolBits::getFloatAvgBool(int startPos, int endPos)
getFloatAvgBoolRange(data, startPos, endPos) ==
  LET sum == CountBits(data, startPos, endPos)
  IN IF endPos - startPos = 0
       THEN Fraction(0, 0)
       ELSE Fraction(sum * 100, endPos - startPos)

\* faulty variant: the range always ends at the cursor
AvgEndCursorOnly(first, num) == num

\* faulty variant: no warm-up range, the whole array is averaged from the start
AvgEndFullWindow(first, num) == capacity

\* loop()'s wrappers read [0, currentPingNum) while firstRun, [0, PING_MAX_COUNT)
\* after: the end of the range
AvgEnd(first, num) == IF first THEN num ELSE capacity

getAvgBool(data, first, num) == getAvgBoolRange(data, 0, AvgEnd(first, num))

getFloatAvgBool(data, first, num) == getFloatAvgBoolRange(data, 0, AvgEnd(first, num))

\* gatewayAvgLoss=getAvgBool(gatewayPings) (v1), =getFloatAvgBool(...) (v2)
ComputeAvgLoss(rev, data, first, num) ==
  IF rev = "v1" THEN getAvgBool(data, first, num) ELSE getFloatAvgBool(data, first, num)

\* faulty variant: the cursor wraps, firstRun is never cleared
currentPingNumIncKeepsFirstRun(num, first) ==
  LET n == num + 1
  IN IF n = capacity
       THEN [currentPingNum |-> 0, firstRun |-> first]
       ELSE [currentPingNum |-> n, firstRun |-> first]

\* faulty variant: firstRun is cleared one call early
currentPingNumIncEarlyFlag(num, first) ==
  LET n == num + 1
  IN IF n = capacity
       THEN [currentPingNum |-> 0, firstRun |-> FALSE]
       ELSE [currentPingNum |-> n, firstRun |-> first /\ n + 1 < capacity]

\* faulty variant: the cursor wraps one position late
currentPingNumIncLateWrap(num, first) ==
  LET n == num + 1
  IN IF n > capacity
       THEN [currentPingNum |-> 0, firstRun |-> FALSE]
       ELSE [currentPingNum |-> n, firstRun |-> first]

\* currentPingNumInc(): the cursor and the warm-up flag after the call
currentPingNumInc(num, first) ==
  LET n == num + 1
  IN IF n = capacity
       THEN [currentPingNum |-> 0, firstRun |-> FALSE]
       ELSE [currentPingNum |-> n, firstRun |-> first]

\* -------------------------------------------- accesses outside the array
\* C checks no index.  data[byte_pos] with byte_pos outside the array is
\* undefined: a read sees whatever byte lies there, a write changes it.
InArray(data, pos) == (pos \div 8) \in DOMAIN data

RangeInArray(data, endPos) == \A x \in 0..(endPos - 1) : InArray(data, x)

\* the bytes a read outside the array may see: no bit set, or every bit set
StrayBytes == {0, 255}

StrayReads(data, endPos) == IF RangeInArray(data, endPos) THEN {0} ELSE StrayBytes

\* the array as getBool sees it over [0, endPos): its own bytes, and mem
\* for the bytes beyond them
Seen(data, endPos, mem) ==
  [b \in DOMAIN data \cup 0..((endPos - 1) \div 8) |->
     IF b \in DOMAIN data THEN data[b] ELSE mem]

\* what a write at pos changes: the array's own byte; outside the array,
\* the int declared after the arrays (they have no bytes of their own, so
\* the linker may give them its address), or memory the sketch never reads
StrayVictims(data, pos) ==
  IF InArray(data, pos) THEN {"array"}
  ELSE IF pos \div 8 \in {0, 1} THEN {"cursor", "elsewhere"}
  ELSE {"elsewhere"}

\* an int whose two bytes setBool has written as if they were the array
StrayInt(v, pos, value) ==
  LET raw == (v + LIMB) % LIMB
      bytes == setBool([b \in {0, 1} |-> IF b = 0 THEN raw % 256 ELSE raw \div 256],
                       pos, value)
  IN Int16(bytes[0] + 256 * bytes[1])

\* ------------------------------------------------------------ transport
\* What a probe can come to (the ProbeExecutor contract).
Outcomes == {"Success", "Failure", "SendFailed"}

\* echoReply.status as the transport leaves it for an outcome
StatusOf(o) ==
  CASE o = "Success" -> "SUCCESS"
    [] o = "Failure" -> "NO_RESPONSE"
    [] OTHER -> "SEND_TIMEOUT"

\* How long the transport takes to come to an outcome: a reply may arrive at
\* once or as late as the timeout, no reply is known when the timeout
\* expires, and a failed send is known at once.
Latencies(o, timeout) ==
  CASE o = "Success" -> {0, timeout}
    [] o = "Failure" -> {timeout}
    [] OTHER -> {0}

\* faulty variant: only a missing reply counts as failure
doPingResultSendOk(status) == status # "NO_RESPONSE"

\* doPing's return value: if (echoReply.status == SUCCESS) return true; else false
doPingResult(status) == status = "SUCCESS"

\* --------------------------------------------------------- maintenance
\* the alarm() call of each branch of ethernetRenewMaintenance(); 0 is none
AlarmMs(status) ==
  CASE status = 0 -> 0
    [] status = 2 \/ status = 4 -> ALARM_OK_MS
    [] OTHER -> ALARM_FAIL_MS

\* alarm(timeMs): etime=millis(); delay(50); delay(50); spin while
\* millis()-etime < timeMs.  The time it takes.
AlarmDuration(timeMs) ==
  IF timeMs > 2 * ALARM_FLASH_MS THEN timeMs ELSE 2 * ALARM_FLASH_MS

\* the time ethernetRenewMaintenance() blocks for a status
MaintenanceDelay(rev, status) ==
  IF rev = "v2" /\ status > 0 THEN AlarmDuration(AlarmMs(status)) ELSE 0

\* faulty variant: the rebind branches print the renew messages
MaintenanceMessageRebindAsRenew(status) ==
  CASE status = 0 -> "None"
    [] status = 1 \/ status = 3 -> "RenewFailed"
    [] status = 2 \/ status = 4 -> "RenewOK"
    [] OTHER -> "Unknown"

\* what the branch of the status displays and logs
MaintenanceMessage(status) ==
  CASE status = 0 -> "None"
    [] status = 1 -> "RenewFailed"
    [] status = 2 -> "RenewOK"
    [] status = 3 -> "RebindFailed"
    [] status = 4 -> "RebindOK"
    [] OTHER -> "Unknown"

\* ------------------------------------------------------------- idle-wait
\* faulty variant: the wait covers the processing margin only
IdleWaitTestMarginOnly(m, st, rev) == ULess(USub(m, st), ProcessingTime(rev))

\* while(millis()-stime < PROCESSING_LOOP_INTERVAL)
IdleWaitTest(m, st, rev) == ULess(USub(m, st), PROCESSING_LOOP_INTERVAL(rev))

\* the counter's advance until the test above first fails
IdleRemaining(m, st, rev) == PROCESSING_LOOP_INTERVAL(rev) - USub(m, st).lo

\* ------------------------------------------------------------ loop() body
\* faulty variant: the cursor advances before the probes
LoopBodyIncFirst == <<"inc", "probe", "avg", "report", "maintain", "idle">>

\* faulty variant: maintenance moved before the report
LoopBodyMaintainEarly == <<"probe", "inc", "avg", "maintain", "report", "idle">>

\* the statements of loop() after stime=millis(), in order
LoopBody == <<"probe", "inc", "avg", "report", "maintain", "idle">>

\* the statement after p; after the last one loop() returns and starts again
After(p) ==
  LET i == CHOOSE j \in 1..Len(LoopBody) : LoopBody[j] = p
  IN IF i < Len(LoopBody) THEN LoopBody[i + 1] ELSE "start"

\* ----------------------------------------------------------------- setup
\* the value of millis() when setup() is entered
StartClocks == {U32(0, 0)}

\* the delay() calls of setup(); DHCP answers at the first try
SetupDelay(rev) ==
  IF rev = "v1"
    THEN SERIAL_BOOT_DELAY + LCD_BOOT_DELAY_V1 + INFO_SCREENS * LCD_DELAY
    ELSE SERIAL_BOOT_DELAY + INFO_SCREENS * LCD_DELAY

LastN(s, n) == IF Len(s) <= n THEN s ELSE SubSeq(s, Len(s) - n + 1, Len(s))

Event(kind, t) == <<kind, t>>

\* faulty variant: the percentages start at 100
InitialLossFull == Fraction(100, 1)

\* float gatewayAvgLoss=0 (int in v1), and the other two
InitialLoss == Fraction(0, 1)

\* the globals as their initialisers leave them, millis() being one of clocks
GlobalsFrom(clocks) ==
  /\ tgt = 1
  /\ millis \in clocks
  /\ stime = U32(0, 0)
  /\ ethernetStatus = 0
  /\ pings = [t \in Targets |-> ZeroBytes]
  /\ currentPingNum = 0
  /\ firstRun = TRUE
  /\ avgLoss = [t \in Targets |-> InitialLoss]
  /\ pingTimeout = 0
  /\ dispatched = FALSE
  /\ waited = 0
  /\ echoStatus = "NONE"
  /\ window = [t \in Targets |-> <<>>]
  /\ written = [t \in Targets |-> 0]
  /\ lastWritePos = [t \in Targets |-> -1]
  /\ avgEnd = [t \in Targets |-> -1]
  /\ outcome = [t \in Targets |-> "None"]
  /\ events = <<>>
  /\ cycle = 0
  /\ advances = 0
  /\ sinceStart = 0
  /\ cycleLen = -1
  /\ reported = [t \in Targets |-> Fraction(0, 1)]
  /\ maintMessage = "None"
  /\ timeoutSets = 0
  /\ losses = 0
  /\ stray = FALSE

Globals == GlobalsFrom(StartClocks)

\* either revision, with or without ICMPPING_ASYNCH_ENABLE, about to run setup()
Init ==
  /\ revision \in Revisions
  /\ asyncEnabled \in BOOLEAN
  /\ capacity = PING_MAX_COUNT
  /\ pc = "setup"
  /\ Globals

\* ---------------------------------------------------------------- helpers
\* d milliseconds pass
Advance(d) ==
  /\ millis' = UAdd(millis, d)
  /\ sinceStart' = sinceStart + d

\* the probe may end other than in success only within the bound
WithinLosses(o) == o = "Success" \/ losses < MaxLosses

CountLoss(o) == losses' = IF o = "Success" THEN losses ELSE losses + 1

\* the statement after target i's: the next target's, or currentPingNumInc()
NextTarget(i) == IF i < NUMBER_OF_IPS THEN i + 1 ELSE 1

NextProbePc(i) == IF i < NUMBER_OF_IPS THEN "probe" ELSE After("probe")

\* faulty variant: the sample goes to all three arrays
StoreSampleAllTargets(ok) ==
  LET t == TargetOrder[tgt]
      lost == ~ok
  IN /\ pings' = [u \in Targets |-> setBool(pings[u], currentPingNum, lost)]
     /\ UNCHANGED <<cursorVars, stray>>
     /\ window' = [window EXCEPT ![t] = LastN(Append(@, lost), capacity)]
     /\ written' = [written EXCEPT ![t] = @ + 1]
     /\ lastWritePos' = [lastWritePos EXCEPT ![t] = currentPingNum]
     /\ pc' = NextProbePc(tgt)
     /\ tgt' = NextTarget(tgt)

\* xPings.setBool( currentPingNum, !doPing(...) ) once doPing has returned ok
StoreSample(ok) ==
  LET t == TargetOrder[tgt]
      lost == ~ok
  IN /\ \E victim \in StrayVictims(pings[t], currentPingNum) :
          /\ pings' = IF victim = "array"
                        THEN [pings EXCEPT ![t] = setBool(@, currentPingNum, lost)]
                        ELSE pings
          /\ currentPingNum' = IF victim = "cursor"
                                 THEN StrayInt(currentPingNum, currentPingNum, lost)
                                 ELSE currentPingNum
     /\ stray' = (stray \/ ~InArray(pings[t], currentPingNum))
     /\ UNCHANGED <<firstRun, advances>>
     /\ window' = [window EXCEPT ![t] = LastN(Append(@, lost), capacity)]
     /\ written' = [written EXCEPT ![t] = @ + 1]
     /\ lastWritePos' = [lastWritePos EXCEPT ![t] = currentPingNum]
     /\ pc' = NextProbePc(tgt)
     /\ tgt' = NextTarget(tgt)

\* ---------------------------------------------------------------- actions
\* faulty variant: setup() without the ICMPPing::setTimeout call
SetupTimeoutUnset ==
  /\ pc = "setup"
  /\ pings' = [t \in Targets |-> IF revision = "v1" THEN ZeroBytes ELSE pings[t]]
  /\ Advance(SetupDelay(revision))
  /\ pc' = "start"
  /\ UNCHANGED <<cfgVars, tgt, stime, cursorVars, avgVars,
                 probeVars, window, written, lastWritePos, stray, outcome, events, cycle,
                 cycleLen, reported, maintVars, losses>>

\* setup(): ends with ICMPPing::setTimeout(ICMP_PING_TIMEOUT); v1 zeroes the arrays
Setup ==
  /\ pc = "setup"
  /\ pingTimeout' = PingTimeout(revision)
  /\ timeoutSets' = timeoutSets + 1
  /\ pings' = [t \in Targets |-> IF revision = "v1" THEN ZeroBytes ELSE pings[t]]
  /\ Advance(SetupDelay(revision))
  /\ pc' = "start"
  /\ UNCHANGED <<revision, asyncEnabled, capacity, tgt, stime, cursorVars, avgVars,
                 probeVars, window, written, lastWritePos, stray, outcome, events, cycle,
                 cycleLen, reported, maintVars, losses>>

\* the cycles the model follows a build for
CycleBound == IF capacity > 0 THEN MaxCycles ELSE MaxStrayCycles

\* loop(): stime=millis();
CycleStart ==
  /\ pc = "start"
  /\ cycle < CycleBound
  /\ stime' = millis
  /\ cycle' = cycle + 1
  /\ cycleLen' = IF cycle = 0 THEN -1 ELSE sinceStart
  /\ sinceStart' = 0
  /\ events' = <<>>
  /\ pc' = LoopBody[1]
  /\ tgt' = 1
  /\ UNCHANGED <<cfgVars, millis, bufVars, cursorVars, avgVars, probeVars, outcome,
                 reported, maintVars, losses>>

\* doPing() without ICMPPING_ASYNCH_ENABLE: ping(pingAddr, 1, echoReply) blocks
\* until the reply or the timeout, then the sample is stored
PingBlocking ==
  /\ pc = "probe"
  /\ ~asyncEnabled
  /\ \E o \in Outcomes : \E d \in Latencies(o, pingTimeout) :
       /\ WithinLosses(o)
       /\ CountLoss(o)
       /\ Advance(d)
       /\ outcome' = [outcome EXCEPT ![TargetOrder[tgt]] = o]
       /\ echoStatus' = StatusOf(o)
       /\ StoreSample(doPingResult(StatusOf(o)))
  /\ events' = events \o <<Event("probe", TargetOrder[tgt]), Event("done", TargetOrder[tgt]),
                           Event("set", TargetOrder[tgt])>>
  /\ UNCHANGED <<cfgVars, stime, avgVars, dispatched, waited, cycle, cycleLen,
                 reported, maintVars>>

\* doPing() with ICMPPING_ASYNCH_ENABLE: ping.asyncStart(pingAddr, 1, echoReply)
\* returns true
AsyncStartOk ==
  /\ pc = "probe"
  /\ asyncEnabled
  /\ dispatched' = TRUE
  /\ waited' = 0
  /\ echoStatus' = "ASYNC_SENT"
  /\ pc' = "poll"
  /\ events' = Append(events, Event("probe", TargetOrder[tgt]))
  /\ UNCHANGED <<cfgVars, tgt, clockVars, stime, bufVars, cursorVars, avgVars, outcome,
                 cycle, cycleLen, reported, maintVars, losses>>

\* ping.asyncStart returns false.  v2 returns false from doPing and the sample
\* is stored; v1 has the return commented out and goes on to the poll loop.
AsyncStartFail ==
  /\ pc = "probe"
  /\ asyncEnabled
  /\ WithinLosses("SendFailed")
  /\ CountLoss("SendFailed")
  /\ outcome' = [outcome EXCEPT ![TargetOrder[tgt]] = "SendFailed"]
  /\ echoStatus' = StatusOf("SendFailed")
  /\ dispatched' = FALSE
  /\ waited' = 0
  /\ IF revision = "v2"
       THEN /\ StoreSample(FALSE)
            /\ events' = events \o <<Event("probe", TargetOrder[tgt]),
                                     Event("done", TargetOrder[tgt]),
                                     Event("set", TargetOrder[tgt])>>
       ELSE /\ pc' = "poll"
            /\ events' = Append(events, Event("probe", TargetOrder[tgt]))
            /\ UNCHANGED <<tgt, bufVars, cursorVars>>
  /\ UNCHANGED <<cfgVars, clockVars, stime, avgVars, cycle, cycleLen, reported,
                 maintVars>>

\* while (! ping.asyncComplete(echoReply)): the poll returns false and the
\* loop spins; a probe in flight is waited for no longer than the timeout
AsyncSpin ==
  /\ pc = "poll"
  /\ waited < pingTimeout
  /\ Advance(pingTimeout - waited)
  /\ waited' = pingTimeout
  /\ UNCHANGED <<cfgVars, pc, tgt, stime, bufVars, cursorVars, avgVars, dispatched,
                 echoStatus, outcome, events, cycle, cycleLen, reported, maintVars,
                 losses>>

\* ping.asyncComplete(echoReply) returns true.  For a probe in flight it has
\* written the reply's status; with none in flight echoReply is as
\* asyncStart left it.  Then the sample is stored.
AsyncComplete ==
  /\ pc = "poll"
  /\ \E o \in {"Success", "Failure"} :
       LET final == IF dispatched THEN o ELSE outcome[TargetOrder[tgt]]
           status == IF dispatched THEN StatusOf(o) ELSE echoStatus
       IN /\ dispatched => (WithinLosses(o) /\ CountLoss(o) /\ waited \in Latencies(o, pingTimeout))
          /\ ~dispatched => (o = "Failure" /\ UNCHANGED losses)
          /\ outcome' = [outcome EXCEPT ![TargetOrder[tgt]] = final]
          /\ echoStatus' = status
          /\ StoreSample(doPingResult(status))
  /\ dispatched' = FALSE
  /\ waited' = 0
  /\ events' = events \o <<Event("done", TargetOrder[tgt]), Event("set", TargetOrder[tgt])>>
  /\ UNCHANGED <<cfgVars, clockVars, stime, avgVars, cycle, cycleLen, reported,
                 maintVars>>

\* currentPingNumInc();
Increment ==
  /\ pc = "inc"
  /\ currentPingNum' = currentPingNumInc(currentPingNum, firstRun).currentPingNum
  /\ firstRun' = currentPingNumInc(currentPingNum, firstRun).firstRun
  /\ advances' = advances + 1
  /\ pc' = After("inc")
  /\ tgt' = 1
  /\ events' = Append(events, Event("inc", ""))
  /\ outcome' = [t \in Targets |-> "None"]
  /\ echoStatus' = "NONE"
  /\ UNCHANGED <<cfgVars, clockVars, stime, bufVars, avgVars, dispatched, waited, cycle,
                 cycleLen, reported, maintVars, losses>>

\* xAvgLoss=getAvgBool(xPings) / getFloatAvgBool(xPings), one target at a time
ComputeAverage ==
  /\ pc = "avg"
  /\ \E mem \in StrayReads(pings[TargetOrder[tgt]], AvgEnd(firstRun, currentPingNum)) :
       avgLoss' = [avgLoss EXCEPT ![TargetOrder[tgt]] =
                     ComputeAvgLoss(revision,
                                    Seen(pings[TargetOrder[tgt]],
                                         AvgEnd(firstRun, currentPingNum), mem),
                                    firstRun, currentPingNum)]
  /\ stray' = (stray \/ ~RangeInArray(pings[TargetOrder[tgt]],
                                      AvgEnd(firstRun, currentPingNum)))
  /\ avgEnd' = [avgEnd EXCEPT ![TargetOrder[tgt]] = AvgEnd(firstRun, currentPingNum)]
  /\ pc' = IF tgt < NUMBER_OF_IPS THEN "avg" ELSE After("avg")
  /\ tgt' = NextTarget(tgt)
  /\ events' = Append(events, Event("avg", TargetOrder[tgt]))
  /\ UNCHANGED <<cfgVars, clockVars, stime, pings, window, written, lastWritePos,
                 cursorVars, probeVars, outcome, cycle, cycleLen, reported, maintVars,
                 losses>>

\* the Serial.print and lcd.print of the three percentages
Report ==
  /\ pc = "report"
  /\ reported' = avgLoss
  /\ pc' = After("report")
  /\ events' = Append(events, Event("report", ""))
  /\ UNCHANGED <<cfgVars, tgt, clockVars, stime, bufVars, cursorVars, avgVars, probeVars,
                 outcome, cycle, cycleLen, maintVars, losses>>

\* ethernetStatus=Ethernet.maintain(); and the branch of the status (v2:
\* ethernetRenewMaintenance(), with its alarm)
Maintain ==
  /\ pc = "maintain"
  /\ \E s \in 0..MaxStatus :
       /\ s > 0 => cycle > QuietCycles
       /\ ethernetStatus' = s
       /\ maintMessage' = MaintenanceMessage(s)
       /\ Advance(MaintenanceDelay(revision, s))
  /\ pc' = After("maintain")
  /\ events' = Append(events, Event("maintain", ""))
  /\ UNCHANGED <<cfgVars, tgt, stime, bufVars, cursorVars, avgVars, probeVars, outcome,
                 cycle, cycleLen, reported, losses>>

\* the idle-wait spins: its test holds, and time passes until it fails
IdleSpin ==
  /\ pc = "idle"
  /\ IdleWaitTest(millis, stime, revision)
  /\ Advance(IdleRemaining(millis, stime, revision))
  /\ events' = Append(events, Event("idle", ""))
  /\ UNCHANGED <<cfgVars, pc, tgt, stime, bufVars, cursorVars, avgVars, probeVars,
                 outcome, cycle, cycleLen, reported, maintVars, losses>>

\* the idle-wait's test fails: loop() returns and is called again
IdleExit ==
  /\ pc = "idle"
  /\ ~IdleWaitTest(millis, stime, revision)
  /\ pc' = After("idle")
  /\ UNCHANGED <<cfgVars, tgt, clockVars, stime, bufVars, cursorVars, avgVars, probeVars,
                 outcome, events, cycle, cycleLen, reported, maintVars, losses>>

Next ==
  \/ Setup
  \/ CycleStart
  \/ PingBlocking
  \/ AsyncStartOk
  \/ AsyncStartFail
  \/ AsyncSpin
  \/ AsyncComplete
  \/ Increment
  \/ ComputeAverage
  \/ Report
  \/ Maintain
  \/ IdleSpin
  \/ IdleExit

Spec == Init /\ [][Next]_vars

\* ------------------------------------------------- the bit store by itself
\* The functions of part_000 over one array, called in any order with any
\* arguments inside the array: setBool, getAvgBool over a range, getAvgBool
\* over the window, currentPingNumInc.  An access outside the array is
\* undefined: the store is followed up to the first one, and no further.
InitStore ==
  /\ revision = "v1"
  /\ asyncEnabled = FALSE
  /\ capacity = PING_MAX_COUNT
  /\ pc = "store"
  /\ Globals

\* setBool(gatewayPings, pos, value)
StoreSet ==
  /\ pc = "store"
  /\ ~stray
  /\ \E pos \in 0..(capacity - 1) : \E value \in BOOLEAN :
       /\ \E victim \in StrayVictims(pings["gateway"], pos) :
            /\ pings' = IF victim = "array"
                          THEN [pings EXCEPT !["gateway"] = setBool(@, pos, value)]
                          ELSE pings
            /\ currentPingNum' = IF victim = "cursor"
                                   THEN StrayInt(currentPingNum, pos, value)
                                   ELSE currentPingNum
       /\ stray' = (stray \/ ~InArray(pings["gateway"], pos))
  /\ UNCHANGED <<cfgVars, pc, tgt, clockVars, stime, window, written, lastWritePos,
                 firstRun, advances, avgVars, probeVars, outcome, events, cycle,
                 cycleLen, reported, maintVars, losses>>

\* gatewayAvgLoss=getAvgBool(gatewayPings, startPos, endPos)
StoreAverageRange ==
  /\ pc = "store"
  /\ ~stray
  /\ \E startPos \in 0..capacity : \E endPos \in startPos..capacity :
       /\ \E mem \in StrayReads(pings["gateway"], endPos) :
            avgLoss' = [avgLoss EXCEPT !["gateway"] =
                          getAvgBoolRange(Seen(pings["gateway"], endPos, mem),
                                          startPos, endPos)]
       /\ stray' = (stray \/ (startPos < endPos /\ ~RangeInArray(pings["gateway"], endPos)))
       /\ avgEnd' = [avgEnd EXCEPT !["gateway"] = endPos]
  /\ UNCHANGED <<cfgVars, pc, tgt, clockVars, stime, pings, window, written,
                 lastWritePos, cursorVars, probeVars, outcome, events, cycle, cycleLen,
                 reported, maintVars, losses>>

\* faulty variant: the average moves the cursor on
StoreAverageAdvancing ==
  /\ pc = "store"
  /\ ~stray
  /\ avgLoss' = [avgLoss EXCEPT !["gateway"] =
                   getAvgBool(pings["gateway"], firstRun, currentPingNum)]
  /\ avgEnd' = [avgEnd EXCEPT !["gateway"] = AvgEnd(firstRun, currentPingNum)]
  /\ currentPingNum' = currentPingNumInc(currentPingNum, firstRun).currentPingNum
  /\ firstRun' = currentPingNumInc(currentPingNum, firstRun).firstRun
  /\ UNCHANGED <<cfgVars, pc, tgt, clockVars, stime, bufVars, advances, probeVars,
                 outcome, events, cycle, cycleLen, reported, maintVars, losses>>

\* gatewayAvgLoss=getAvgBool(gatewayPings)
StoreAverage ==
  /\ pc = "store"
  /\ ~stray
  /\ \E mem \in StrayReads(pings["gateway"], AvgEnd(firstRun, currentPingNum)) :
       avgLoss' = [avgLoss EXCEPT !["gateway"] =
                     getAvgBool(Seen(pings["gateway"], AvgEnd(firstRun, currentPingNum), mem),
                                firstRun, currentPingNum)]
  /\ stray' = (stray \/ ~RangeInArray(pings["gateway"], AvgEnd(firstRun, currentPingNum)))
  /\ avgEnd' = [avgEnd EXCEPT !["gateway"] = AvgEnd(firstRun, currentPingNum)]
  /\ UNCHANGED <<cfgVars, pc, tgt, clockVars, stime, pings, window, written,
                 lastWritePos, cursorVars, probeVars, outcome, events, cycle, cycleLen,
                 reported, maintVars, losses>>

\* currentPingNumInc()
StoreInc ==
  /\ pc = "store"
  /\ ~stray
  /\ currentPingNum' = currentPingNumInc(currentPingNum, firstRun).currentPingNum
  /\ firstRun' = currentPingNumInc(currentPingNum, firstRun).firstRun
  /\ UNCHANGED <<cfgVars, pc, tgt, clockVars, stime, bufVars, advances, avgVars,
                 probeVars, outcome, events, cycle, cycleLen, reported, maintVars,
                 losses>>

NextStore ==
  \/ StoreSet
  \/ StoreAverageRange
  \/ StoreAverage
  \/ StoreInc

SpecStore == InitStore /\ [][NextStore]_vars

\* ------------------------------------------- the bit store of any window size
\* the window sizes part_000 is built with
MaxCapacity == 5

Capacities == 1..MaxCapacity

InitCapacity ==
  /\ revision = "v1"
  /\ asyncEnabled = FALSE
  /\ capacity \in Capacities
  /\ pc = "store"
  /\ Globals

SpecCapacity == InitCapacity /\ [][NextStore]_vars

\* ------------------------------------------------ setBool over two bytes
\* a window that takes two bytes: setBool at every position, on every content
WideCapacity == 12

InitBits ==
  /\ revision = "v1"
  /\ asyncEnabled = FALSE
  /\ capacity = WideCapacity
  /\ pc = "store"
  /\ Globals

NextBits == StoreSet

SpecBits == InitBits /\ [][NextBits]_vars

\* ------------------------------------------------ the clock about to wrap
\* setup() is entered this many milliseconds before millis() wraps to 0: the
\* wrap falls in the first cycle or in the second, during the probes, the
\* idle-wait or at the cycle's start, as the probes and the revision have it
WrapLeads == {11000, 13000}

WrapClocks == {U32(LIMB - 1, LIMB - d) : d \in WrapLeads}

InitWrap ==
  /\ revision \in Revisions
  /\ asyncEnabled \in BOOLEAN
  /\ capacity = PING_MAX_COUNT
  /\ pc = "setup"
  /\ GlobalsFrom(WrapClocks)

SpecWrap == InitWrap /\ [][Next]_vars

\* ------------------------------------------- the window as part_000 ships it
\* #define PING_MAX_COUNT 100 of part_000
PING_MAX_COUNT_V1 == 100

InitPercent ==
  /\ revision = "v1"
  /\ asyncEnabled = FALSE
  /\ capacity = PING_MAX_COUNT_V1
  /\ pc = "draw"
  /\ Globals

\* one more sample of the gateway: setBool(gatewayPings, currentPingNum, value)
\* and currentPingNumInc(), up to a full window; the samples lost are the
\* first ones.  The average may be asked for after any of them.
FillStep ==
  /\ pc = "draw"
  /\ advances < capacity
  /\ \E value \in BOOLEAN :
       /\ value => losses = advances
       /\ pings' = [pings EXCEPT !["gateway"] = setBool(@, currentPingNum, value)]
       /\ losses' = IF value THEN losses + 1 ELSE losses
  /\ currentPingNum' = currentPingNumInc(currentPingNum, firstRun).currentPingNum
  /\ firstRun' = currentPingNumInc(currentPingNum, firstRun).firstRun
  /\ advances' = advances + 1
  /\ pc' \in {"draw", "store"}
  /\ UNCHANGED <<cfgVars, tgt, clockVars, stime, window, written, lastWritePos, stray,
                 avgVars, probeVars, outcome, events, cycle, cycleLen, reported,
                 maintVars>>

NextPercent ==
  \/ FillStep
  \/ StoreAverage

SpecPercent == InitPercent /\ [][NextPercent]_vars

\* ------------------------------------ a build without a positive window size
\* PING_MAX_COUNT is a #define, and nothing checks it.  With 0 or -1
\* PING_BYTE_MAX is 0, the three arrays have no bytes, and part_000 compiles
\* and runs.
BadCapacities == {0, -1}

InitBadCapacity ==
  /\ revision = "v1"
  /\ asyncEnabled \in BOOLEAN
  /\ capacity \in BadCapacities
  /\ pc = "setup"
  /\ Globals

SpecBadCapacity == InitBadCapacity /\ [][Next]_vars

\* ------------------------------------------------------------ properties
CountTrue(w) == Cardinality({i \in 1..Len(w) : w[i]})

\* f is exactly 100 * k / n
ExactPercent(f, k, n) == f.den # 0 /\ f.num * n = 100 * k * f.den

\* f is 100 * k / n rounded down to a whole number
WholePercent(f, k, n) == f.den = 1 /\ f.num = (100 * k) \div n

\* f is the loss percentage of window w as the revision keeps it: the float
\* of v2 exactly, the int of v1 rounded down
Matches(rev, f, w) ==
  IF rev = "v1"
    THEN WholePercent(f, CountTrue(w), Len(w))
    ELSE ExactPercent(f, CountTrue(w), Len(w))

\* the three averages of the cycle have been computed and no sample of the
\* next cycle is written yet
AveragesDone == advances >= 1 /\ pc \in {"report", "maintain", "idle", "start"}

LossesInWindows ==
  CountTrue(window["gateway"]) + CountTrue(window["firstAddr"]) + CountTrue(window["secondAddr"])

Pos(kind) == {j \in 1..Len(events) : events[j][1] = kind}

Stored(t) == \E j \in 1..Len(events) : events[j] = Event("set", t)

CycleOver == pc = "start" /\ cycle >= 1

\* the fixed cycle duration of both revisions, 950*3+150 and 800*3+600
FixedCycleMs == 3000

\* C1: after the buffer has wrapped (more than PING_MAX_COUNT cycles), every
\* target's loss percentage at the end of a cycle is 100 * (losses among its
\* most recent PING_MAX_COUNT samples) / PING_MAX_COUNT: older samples are
\* evicted one per write.  (v1 divides in int; exact when the capacity
\* divides 100 * losses, as its 100 does.)
C1_RollingWindow ==
  (AveragesDone /\ advances > PING_MAX_COUNT) =>
    \A t \in Targets :
      /\ Len(window[t]) = PING_MAX_COUNT
      /\ Matches(revision, avgLoss[t], window[t])
      /\ 100 % PING_MAX_COUNT = 0 =>
           ExactPercent(avgLoss[t], CountTrue(window[t]), PING_MAX_COUNT)

\* C1 witness: the buffer has wrapped, a loss has been evicted and another
\* is still in a window
C1_Witness ==
  /\ AveragesDone
  /\ advances > PING_MAX_COUNT
  /\ LossesInWindows > 0
  /\ losses > LossesInWindows

\* C2 as stated: during warm-up (N <= PING_MAX_COUNT samples) the loss
\* percentage after the N-th sample is exactly 100 * losses / N, and the
\* average reads positions [0, N) only.
C2_WarmupExact ==
  (AveragesDone /\ advances <= PING_MAX_COUNT) =>
    \A t \in Targets :
      /\ avgEnd[t] = advances
      /\ ExactPercent(avgLoss[t], CountTrue(window[t]), advances)

\* C2 amended: the same, with v1's percentage the exact value rounded down
\* to a whole number (v2's float is the exact value).
C2_WarmupAverage ==
  (AveragesDone /\ advances <= PING_MAX_COUNT) =>
    \A t \in Targets :
      /\ avgEnd[t] = advances
      /\ written[t] = advances
      /\ Len(window[t]) = advances
      /\ Matches(revision, avgLoss[t], window[t])

\* C2 witness: warm-up, a window with a loss and a success in it
C2_Witness ==
  /\ AveragesDone
  /\ advances < PING_MAX_COUNT
  /\ \E t \in Targets : 0 < CountTrue(window[t]) /\ CountTrue(window[t]) < advances

\* C3 as stated: in every state each target's cached percentage is
\* 100 * (losses in its window) / (window size).
C3_AlwaysCurrent ==
  \A t \in Targets :
    Len(window[t]) > 0 => ExactPercent(avgLoss[t], CountTrue(window[t]), Len(window[t]))

\* target i's cached percentage has been recomputed since its last write
Current(i) ==
  /\ advances >= 1
  /\ \/ pc \in {"report", "maintain", "idle", "start"}
     \/ pc = "avg" /\ i < tgt
     \/ pc \in {"probe", "poll"} /\ i >= tgt

\* C3 amended: from the recomputation of a target's average until that
\* target's next write, its cached percentage is 100 * (losses in its
\* window) / (window size), rounded down to a whole number in v1.
C3_CurrentUntilNextWrite ==
  \A i \in 1..NUMBER_OF_IPS :
    Current(i) => Matches(revision, avgLoss[TargetOrder[i]], window[TargetOrder[i]])

\* C3 witness: the gateway's average is recomputed with a loss in its
\* window while the other two are still to be recomputed
C3_Witness ==
  /\ pc = "avg"
  /\ tgt = 2
  /\ CountTrue(window["gateway"]) > 0
  /\ avgLoss["gateway"].num > 0

\* C4: a cycle never lasts less than the fixed cycle duration: the next
\* cycle start comes no sooner than 3000 ms after the previous one.
C4_MinimumCycle == cycleLen = -1 \/ cycleLen >= FixedCycleMs

\* C4 witness: after a cycle of exactly the fixed duration, the idle-wait
\* is reached with no time elapsed (every probe answered at once) and
\* nothing from maintenance
C4_Witness ==
  /\ cycleLen = FixedCycleMs
  /\ pc = "idle"
  /\ sinceStart = 0
  /\ ethernetStatus = 0
  /\ losses = 0

\* C5 as stated: every cycle lasts exactly the fixed cycle duration.
C5_ConstantCycle == cycleLen = -1 \/ cycleLen = FixedCycleMs

\* C6: the sample stored for a target is a loss exactly when its probe did
\* not come to Success (SendFailed as Failure), it is stored at the cursor,
\* and the cycle goes on to the next target.
C6_LossEncoding ==
  pc \in {"probe", "poll", "inc"} =>
    \A i \in 1..NUMBER_OF_IPS :
      LET t == TargetOrder[i]
      IN Stored(t) =>
           /\ outcome[t] \in Outcomes
           /\ lastWritePos[t] = currentPingNum
           /\ getBool(pings[t], currentPingNum) = (outcome[t] # "Success")
           /\ window[t][Len(window[t])] = (outcome[t] # "Success")
           /\ \/ pc \in {"probe", "poll"} /\ tgt > i
              \/ pc = "inc" /\ Stored(TargetOrder[NUMBER_OF_IPS])

\* C6 witness: the gateway's probe could not be sent, a loss is stored for
\* it, and the first address is up next
C6_Witness ==
  /\ pc = "probe"
  /\ tgt = 2
  /\ outcome["gateway"] = "SendFailed"
  /\ Stored("gateway")
  /\ getBool(pings["gateway"], currentPingNum)

\* C7 as stated, its last sentence: the scheduler never waits on the
\* completion poll with no probe dispatched.
C7_NoPollWithoutDispatch == pc = "poll" => dispatched

\* C8: Ethernet.maintain() is called exactly once per cycle, after the
\* three samples, the three averages and the report, and before the
\* idle-wait; never while probing or idling.
C8_MaintenanceOnce ==
  /\ Cardinality(Pos("maintain")) <= 1
  /\ pc \in {"probe", "poll", "inc", "avg", "report", "maintain"} => Pos("maintain") = {}
  /\ (pc = "idle" \/ CycleOver) => Cardinality(Pos("maintain")) = 1
  /\ \A m \in Pos("maintain") :
       /\ Cardinality({j \in Pos("set") : j < m}) = NUMBER_OF_IPS
       /\ Cardinality({j \in Pos("avg") : j < m}) = NUMBER_OF_IPS
       /\ Cardinality({j \in Pos("report") : j < m}) = 1
       /\ \A j \in Pos("idle") : j > m

\* C8 witness: maintenance has reported a status and the idle-wait is
\* spinning after it
C8_Witness ==
  /\ pc = "idle"
  /\ ethernetStatus > 0
  /\ Pos("idle") # {}
  /\ Cardinality(Pos("maintain")) = 1

IsProbeEvent(e) == e[1] \in {"probe", "done"}

ProbeEvents == SelectSeq(events, IsProbeEvent)

\* each probe started and finished, gateway, first address, second address
ProbeOrder ==
  <<Event("probe", "gateway"), Event("done", "gateway"),
    Event("probe", "firstAddr"), Event("done", "firstAddr"),
    Event("probe", "secondAddr"), Event("done", "secondAddr")>>

\* C9: in every cycle the three targets are probed once each, in the order
\* gateway, first address, second address, and no probe starts before the
\* one before it has finished.
C9_ProbeOrder ==
  /\ Len(ProbeEvents) <= Len(ProbeOrder)
  /\ ProbeEvents = SubSeq(ProbeOrder, 1, Len(ProbeEvents))
  /\ (pc \in {"inc", "avg", "report", "maintain", "idle"} \/ CycleOver) => ProbeEvents = ProbeOrder
  /\ pc = "poll" => ProbeEvents[Len(ProbeEvents)] = Event("probe", ProbeOrder[2 * tgt][2])

\* C9 witness: the second address's probe is in flight, the other two have
\* finished
C9_Witness ==
  /\ pc = "poll"
  /\ dispatched
  /\ tgt = NUMBER_OF_IPS
  /\ Len(ProbeEvents) = Len(ProbeOrder) - 1

\* C10: firstRun is true while fewer than PING_MAX_COUNT samples have been
\* recorded (the cursor advanced fewer times), false from the
\* PING_MAX_COUNT-th on, for good; after exactly PING_MAX_COUNT the cursor is
\* 0 and the window is the whole array, and the next sample is written at 0.
C10_WrapFlag ==
  /\ firstRun = (advances < PING_MAX_COUNT)
  /\ advances = PING_MAX_COUNT => (currentPingNum = 0 /\ AvgEnd(firstRun, currentPingNum) = PING_MAX_COUNT)
  /\ advances < PING_MAX_COUNT => (currentPingNum = advances /\ AvgEnd(firstRun, currentPingNum) = advances)
  /\ \A t \in Targets : written[t] = PING_MAX_COUNT + 1 => lastWritePos[t] = 0

\* C10 witness: the sample after the wrap has been written at index 0
C10_Witness ==
  /\ ~firstRun
  /\ advances = PING_MAX_COUNT
  /\ written["gateway"] = PING_MAX_COUNT + 1
  /\ lastWritePos["gateway"] = 0

\* C11: every average the loop asks for is over [0, end) with
\* 0 < end <= samples written to the target, end the cursor during warm-up
\* and the capacity from the wrap on; no average divides by zero or reads a
\* position never written, in the first cycle and the wrapping one too.
C11_RangeInWindow ==
  /\ pc = "avg" =>
       /\ 0 < AvgEnd(firstRun, currentPingNum)
       /\ AvgEnd(firstRun, currentPingNum) <= written[TargetOrder[tgt]]
       /\ AvgEnd(firstRun, currentPingNum) =
            (IF advances < PING_MAX_COUNT THEN currentPingNum ELSE PING_MAX_COUNT)
  /\ \A t \in Targets :
       avgEnd[t] # -1 =>
         /\ 0 < avgEnd[t]
         /\ avgEnd[t] <= PING_MAX_COUNT
         /\ avgEnd[t] <= written[t]
         /\ revision = "v1" => avgLoss[t].den # 0

\* C11 witness: the averages of the cycle in which the buffer wraps, the
\* cursor back at 0
C11_Witness ==
  /\ pc = "avg"
  /\ tgt = 2
  /\ advances = PING_MAX_COUNT
  /\ currentPingNum = 0
  /\ avgEnd["gateway"] = PING_MAX_COUNT

\* C13: the write cursor is always in [0, PING_MAX_COUNT), and so is the
\* position of every write.
C13_CursorRange ==
  /\ 0 <= currentPingNum
  /\ currentPingNum < PING_MAX_COUNT
  /\ \A t \in Targets :
       IF written[t] = 0
         THEN lastWritePos[t] = -1
         ELSE 0 <= lastWritePos[t] /\ lastWritePos[t] < PING_MAX_COUNT

\* C13 witness: the three writes at the last position are done and the
\* cursor is about to wrap
C13_Witness ==
  /\ pc = "inc"
  /\ currentPingNum = PING_MAX_COUNT - 1
  /\ \A t \in Targets : lastWritePos[t] = PING_MAX_COUNT - 1

\* C14: a step that writes a sample of a target changes no other target's
\* array, history or cached percentage (nor its own percentage); a step that
\* changes a target's percentage is the recomputation for that target and
\* changes no array and no other percentage.
C14_TargetIsolation ==
  [][\A t \in Targets :
       /\ (pings'[t] # pings[t] \/ written'[t] # written[t]) =>
            /\ pc \in {"probe", "poll"}
            /\ TargetOrder[tgt] = t
            /\ avgLoss' = avgLoss
            /\ \A u \in Targets \ {t} :
                 pings'[u] = pings[u] /\ written'[u] = written[u] /\ window'[u] = window[u]
       /\ avgLoss'[t] # avgLoss[t] =>
            /\ pc = "avg"
            /\ TargetOrder[tgt] = t
            /\ pings' = pings
            /\ \A u \in Targets \ {t} : avgLoss'[u] = avgLoss[u]]_vars

\* C14 witness: a loss has just been written for the gateway at position 1,
\* where the first address still holds what it held
C14_Witness ==
  /\ pc = "probe"
  /\ tgt = 2
  /\ written["gateway"] = 2
  /\ written["firstAddr"] = 1
  /\ getBool(pings["gateway"], 1)
  /\ ~getBool(pings["firstAddr"], 1)
  /\ getBool(pings["firstAddr"], 0)
  /\ ~getBool(pings["gateway"], 0)

\* C17: every percentage handed to serial and LCD is between 0 and 100.
C17_ReportedRange ==
  \A t \in Targets :
    /\ reported[t].den > 0
    /\ 0 <= reported[t].num
    /\ reported[t].num <= 100 * reported[t].den

\* C17 witness: a report of 100 for one target beside 0 for another
C17_Witness ==
  /\ pc = "maintain"
  /\ reported["gateway"].num = 100 * reported["gateway"].den
  /\ reported["firstAddr"].num = 0

\* C18: until the first average of a target is computed, its percentage is 0.
C18_InitialZero ==
  \A t \in Targets :
    avgEnd[t] = -1 => (avgLoss[t].num = 0 /\ avgLoss[t].den = 1 /\ reported[t] = avgLoss[t])

\* C18 witness: the first cycle has stored a loss for the gateway and no
\* average has been computed yet
C18_Witness ==
  /\ cycle = 1
  /\ pc = "inc"
  /\ window["gateway"] = <<TRUE>>
  /\ avgEnd["gateway"] = -1
  /\ avgLoss["gateway"].num = 0

\* maintenance has been called in this cycle
Maintained == Pos("maintain") # {}

\* C19: what the maintenance call displays and logs is None for status 0,
\* RenewFailed for 1, RenewOK for 2, RebindFailed for 3, RebindOK for 4 and
\* Unknown for every other byte, once per cycle.
C19_StatusMapping ==
  /\ Cardinality(Pos("maintain")) <= 1
  /\ Maintained =>
       /\ ethernetStatus = 0 <=> maintMessage = "None"
       /\ ethernetStatus = 1 <=> maintMessage = "RenewFailed"
       /\ ethernetStatus = 2 <=> maintMessage = "RenewOK"
       /\ ethernetStatus = 3 <=> maintMessage = "RebindFailed"
       /\ ethernetStatus = 4 <=> maintMessage = "RebindOK"
       /\ ethernetStatus > 4 <=> maintMessage = "Unknown"

\* C19 witness: a status outside 0..4 has been reported as Unknown
C19_Witness ==
  /\ Maintained
  /\ ethernetStatus > 4
  /\ maintMessage = "Unknown"

\* C20: ICMPPing::setTimeout is called once, in setup(), before any probe,
\* and the timeout stays what it was set to.
C20_TimeoutOnce ==
  /\ timeoutSets <= 1
  /\ pc = "setup" => (timeoutSets = 0 /\ cycle = 0 /\ events = <<>>)
  /\ pc # "setup" => (timeoutSets = 1 /\ pingTimeout = PingTimeout(revision))

\* C20 witness: the first probe of the first cycle has been waited for up
\* to the configured timeout
C20_Witness ==
  /\ cycle = 1
  /\ pc = "poll"
  /\ tgt = 1
  /\ dispatched
  /\ timeoutSets = 1
  /\ waited = PingTimeout(revision)

\* C12 as stated: every average the store returns is defined, the one
\* over the empty range too: no result comes of a division by zero.
C12_AverageDefined == \A t \in Targets : avgLoss[t].den # 0

C15_NoCycleWithoutCapacity ==
  capacity <= 0 => (cycle = 0 /\ \A t \in Targets : written[t] = 0)

\* C21 as stated: for every window size the arrays hold at least that many
\* bits, 8 * PING_BYTE_MAX >= PING_MAX_COUNT, and no setBool or getBool at a
\* position of the window falls outside its array.
C21_StorageLargeEnough ==
  /\ 8 * PING_BYTE_MAX >= capacity
  /\ ~stray

\* C22: in part_000 as configured (window of 100), whatever the array
\* holds, sum * 100 is the same number as a 16-bit int as it is as an
\* integer, and the average returned is floor(100 * sum / window size).
C22_NoOverflow ==
  avgEnd["gateway"] # -1 =>
    LET n == avgEnd["gateway"]
        sum == CountBits(pings["gateway"], 0, n)
    IN /\ Int16(sum * 100) = sum * 100
       /\ avgLoss["gateway"] = Fraction((100 * sum) \div n, 1)

\* C22 witness: every one of the 100 samples of the full window is a loss,
\* and the average of it is 100
C22_Witness ==
  /\ ~firstRun
  /\ avgEnd["gateway"] = PING_MAX_COUNT_V1
  /\ CountBits(pings["gateway"], 0, PING_MAX_COUNT_V1) = PING_MAX_COUNT_V1
  /\ avgLoss["gateway"] = Fraction(100, 1)

\* C23: with millis() wrapping from 2^32 - 1 to 0 during a cycle, no cycle
\* lasts less than the fixed cycle duration, the idle-wait is left only
\* once that duration has passed since stime, and an idle-wait that has spun
\* has spun up to that duration and no longer.
C23_ClockWrap ==
  /\ cycleLen = -1 \/ cycleLen >= FixedCycleMs
  /\ (pc = "idle" /\ ~IdleWaitTest(millis, stime, revision)) => sinceStart >= FixedCycleMs
  /\ Pos("idle") # {} => sinceStart = FixedCycleMs

\* C23 witness: stime was taken before the wrap, millis() has wrapped, and
\* the idle-wait has spun to its end
C23_Witness ==
  /\ pc = "idle"
  /\ stime.hi = LIMB - 1
  /\ millis.hi = 0
  /\ Pos("idle") # {}
  /\ ~IdleWaitTest(millis, stime, revision)

\* a, or 0 when a is negative
Max0(a) == IF a < 0 THEN 0 ELSE a

\* the smaller of two numbers
Min(a, b) == IF a < b THEN a ELSE b

\* C24: in each cycle the three targets are written at one cursor position,
\* and the cursor advances once, after the three writes; at every cycle
\* boundary each target has as many samples as cycles have completed, and
\* each window (the samples kept, and the range the average reads) holds
\* min(completed cycles, PING_MAX_COUNT) of them.
C24_SharedCursor ==
  /\ pc = "inc" => \A t \in Targets : lastWritePos[t] = currentPingNum
  /\ Cardinality(Pos("inc")) <= 1
  /\ \A j \in Pos("inc") : Cardinality({i \in Pos("set") : i < j}) = NUMBER_OF_IPS
  /\ advances = IF Pos("inc") # {} \/ pc = "start" THEN cycle ELSE Max0(cycle - 1)
  /\ CycleOver =>
       \A t \in Targets :
         /\ written[t] = cycle
         /\ Len(window[t]) = Min(cycle, PING_MAX_COUNT)
         /\ avgEnd[t] = Min(cycle, PING_MAX_COUNT)

\* C24 witness: a cycle boundary with more cycles completed than the window
\* holds
C24_Witness ==
  /\ CycleOver
  /\ cycle = PING_MAX_COUNT + 1
  /\ \A t \in Targets : written[t] = cycle /\ Len(window[t]) = PING_MAX_COUNT

\* C25: whatever the array holds, for every position of the window and
\* either value, after setBool(data, pos, value) getBool(data, pos) is
\* value, and getBool of every other position of the array, the other
\* bits of the same byte among them, is what it was.
C25_RoundTrip ==
  \A pos \in 0..(capacity - 1) : \A value \in BOOLEAN :
    LET after == setBool(pings["gateway"], pos, value)
    IN /\ getBool(after, pos) = value
       /\ \A q \in 0..(8 * PING_BYTE_MAX - 1) :
            q # pos => getBool(after, q) = getBool(pings["gateway"], q)

\* C25 witness: setBool has left the first and the last bit of the first
\* byte and the last position of the window set, and nothing else
C25_Witness ==
  /\ pc = "store"
  /\ PING_BYTE_MAX = 2
  /\ pings["gateway"][0] = 129
  /\ pings["gateway"][1] = BIT_MASK[((capacity - 1) % 8) + 1]

=============================================================================
